---- MODULE Spec2Model ----
(***************************************************************************)
(* Chronos snapshot store of SentinelGit (src/src/chronos/storage.rs).     *)
(*                                                                         *)
(* Keys and values of the sled database are byte strings; they are         *)
(* modelled as sequences of byte values so that formatting, parsing,       *)
(* prefix scans and the byte-wise key order are computed as the code       *)
(* computes them.                                                          *)
(***************************************************************************)
EXTENDS Integers, Sequences, FiniteSets, TLC

VARIABLES db, last, saved, rd, seen, app, commits, pressed, handled, git, disk, chan, watcher

storevars == <<db, last, saved, rd, seen>>
uivars == <<app, commits, pressed, handled, git, disk>>
watchvars == <<chan, watcher>>
vars == <<db, last, saved, rd, seen, app, commits, pressed, handled, git, disk, chan, watcher>>

----------------------------------------------------------------------------
(* Bounds of the model.                                                    *)

\* number of distinct (file_path, timestamp) pairs that are saved
MaxSaves == 3
\* the same, while the UI thread reads concurrently (SpecConc)
MaxConcSaves == 2
\* clock readings chrono::Utc::now().timestamp_millis() may return; the range
\* crosses a change of decimal digit width (9 -> 10)
MinTs == 9
MaxTs == 11
\* largest limit passed to get_global_timeline
MaxLimit == 3
\* number of distinct (file_path, timestamp) pairs that are saved in a tree that
\* is damaged from outside (SpecCorrupt)
MaxDamagedSaves == 2

MaxText == 1
MaxCommits == 1
MaxFailingSaves == 2
MaxPatterns == 2
\* keys pressed in a session of the whole dashboard (SpecDashboard); the count
\* of keys stops there
MaxKeys == 5
\* events and errors that the notify backend sends (SpecWatch)
MaxEvents == 2
MaxReservedSaves == 2
\* snapshots saved before and while a checkpoint is read (SpecCheckpoint)
MaxCkSaves == 2
\* snapshots saved under the paths of KeyPaths (SpecKeys)
MaxKeySaves == 2

\* the limit of the time machine: get_global_timeline(50)
TimeMachineLimit == 50

Timestamps == MinTs..MaxTs
\* target timestamps of get_checkpoint_state: one below and one above the clock
Targets == (MinTs - 1)..(MaxTs + 1)
Limits == 0..MaxLimit

----------------------------------------------------------------------------
(* Bytes and strings.                                                      *)

Colon == 58
Minus == 45
Plus == 43
Zero == 48

\* "__time_idx__:"
IdxPrefix == <<95, 95, 116, 105, 109, 101, 95, 105, 100, 120, 95, 95, 58>>

\* file paths handed to the store: "a", "a:b", "b"
PathA == <<97>>
PathAB == <<97, 58, 98>>
PathB == <<98>>
Paths == {PathA, PathAB, PathB}

\* file paths that meet the index prefix: "__time_idx__" and "__time_idx__:x"
PathIdx == SubSeq(IdxPrefix, 1, Len(IdxPrefix) - 1)
PathIdxX == IdxPrefix \o <<120>>
ReservedPaths == {PathA, PathIdx, PathIdxX}

\* byte payloads: the empty one and a non-empty one
Contents == {<<>>, <<7>>}
\* the payload saved while the UI thread reads concurrently (SpecConc)
ConcContents == {<<7>>}

Min(a, b) == IF a < b THEN a ELSE b

Range(s) == {s[i] : i \in DOMAIN s}

StartsWith(s, pre) ==
    /\ Len(pre) <= Len(s)
    /\ \A i \in 1..Len(pre) : s[i] = pre[i]

\* byte-wise order of sled keys (Ord for [u8])
LexLess(a, b) ==
    \/ /\ Len(a) < Len(b)
       /\ \A j \in 1..Len(a) : a[j] = b[j]
    \/ \E i \in 1..Min(Len(a), Len(b)) :
          /\ a[i] < b[i]
          /\ \A j \in 1..(i - 1) : a[j] = b[j]

RECURSIVE DecDigits(_)
DecDigits(n) ==
    IF n < 10 THEN <<Zero + n>>
    ELSE DecDigits(n \div 10) \o <<Zero + (n % 10)>>

\* Display for i64, as used by format!("{}", timestamp)
FormatI64(n) == IF n < 0 THEN <<Minus>> \o DecDigits(-n) ELSE DecDigits(n)

IsDigit(b) == b \in Zero..(Zero + 9)

RECURSIVE DigitsVal(_)
DigitsVal(s) ==
    IF s = <<>> THEN 0
    ELSE 10 * DigitsVal(SubSeq(s, 1, Len(s) - 1)) + (s[Len(s)] - Zero)

\* str::parse::<i64>: optional sign, then one or more decimal digits.  Keys of
\* the model have at most a few digits, so the i64 range is never exceeded.
ParseI64(s) ==
    LET signed == s # <<>> /\ s[1] \in {Plus, Minus}
        body == IF signed THEN Tail(s) ELSE s
    IN  IF body = <<>> \/ \E i \in 1..Len(body) : ~IsDigit(body[i])
        THEN [ok |-> FALSE, val |-> 0]
        ELSE [ok |-> TRUE,
              val |-> IF signed /\ s[1] = Minus THEN 0 - DigitsVal(body)
                      ELSE DigitsVal(body)]

ColonPositions(s) == {i \in 1..Len(s) : s[i] = Colon}

MaxOf(S) == CHOOSE x \in S : \A y \in S : y <= x
MinOf(S) == CHOOSE x \in S : \A y \in S : x <= y

\* key_str.split(':').nth(1): the field after the first ':'
SplitSecond(s) ==
    LET cs == ColonPositions(s)
    IN  IF cs = {} THEN s
        ELSE LET i == MinOf(cs)
                 rest == cs \ {i}
             IN  SubSeq(s, i + 1, IF rest = {} THEN Len(s) ELSE MinOf(rest) - 1)

\* key_str.rsplit(':').next(): the field after the last ':' (the whole string
\* when there is no ':'); always Some
RSplitFirst(s) ==
    IF ColonPositions(s) = {} THEN s
    ELSE SubSeq(s, MaxOf(ColonPositions(s)) + 1, Len(s))

\* a split whose third field ends at the third ':'
SplitN3Short(s) ==
    LET cs == ColonPositions(s)
    IN  IF cs = {} THEN <<s>>
        ELSE LET i == MinOf(cs)
                 rest == cs \ {i}
             IN  IF rest = {} THEN <<SubSeq(s, 1, i - 1), SubSeq(s, i + 1, Len(s))>>
                 ELSE LET j == MinOf(rest)
                          more == rest \ {j}
                      IN  <<SubSeq(s, 1, i - 1), SubSeq(s, i + 1, j - 1),
                            SubSeq(s, j + 1,
                                   IF more = {} THEN Len(s) ELSE MinOf(more) - 1)>>

\* key_str.splitn(3, ':').collect(): at most three fields, the last one keeps
\* the remaining ':'
SplitN3(s) ==
    LET cs == ColonPositions(s)
    IN  IF cs = {} THEN <<s>>
        ELSE LET i == MinOf(cs)
                 rest == cs \ {i}
             IN  IF rest = {} THEN <<SubSeq(s, 1, i - 1), SubSeq(s, i + 1, Len(s))>>
                 ELSE LET j == MinOf(rest)
                      IN  <<SubSeq(s, 1, i - 1), SubSeq(s, i + 1, j - 1),
                            SubSeq(s, j + 1, Len(s))>>

----------------------------------------------------------------------------
(* Codec: zstd::encode_all / zstd::decode_all.  A frame is the magic       *)
(* number, the content size and the content as one raw block; decoding     *)
(* fails on anything that is not a well-formed frame.                      *)

ZstdMagic == <<40, 181, 47, 253>>

Encode(c) == ZstdMagic \o <<Len(c)>> \o c

Decode(b) ==
    IF /\ Len(b) >= Len(ZstdMagic) + 1
       /\ SubSeq(b, 1, Len(ZstdMagic)) = ZstdMagic
       /\ b[Len(ZstdMagic) + 1] = Len(b) - Len(ZstdMagic) - 1
    THEN [ok |-> TRUE, val |-> SubSeq(b, Len(ZstdMagic) + 2, Len(b))]
    ELSE [ok |-> FALSE, val |-> <<>>]

----------------------------------------------------------------------------
(* Key encoder.                                                            *)

\* format!("{}:{}", file_path, timestamp)
DataKey(file_path, timestamp) == file_path \o <<Colon>> \o FormatI64(timestamp)

\* format!("__time_idx__:{}:{}", timestamp, file_path)
TimeKey(timestamp, file_path) ==
    IdxPrefix \o FormatI64(timestamp) \o <<Colon>> \o file_path

----------------------------------------------------------------------------
(* The sled tree: a function from keys to values.                          *)

EmptyDb == [k \in {} |-> <<>>]

Insert(store, k, v) ==
    [x \in (DOMAIN store) \cup {k} |-> IF x = k THEN v ELSE store[x]]

\* only the first insert of the batch reaches the tree
ApplyBatchFirst(store, batch) ==
    IF batch = <<>> THEN store ELSE Insert(store, batch[1].k, batch[1].v)

RECURSIVE ApplyBatch(_, _)
\* Db::apply_batch: every insert of the batch, in order, as one atomic write
ApplyBatch(store, batch) ==
    IF batch = <<>> THEN store
    ELSE ApplyBatch(Insert(store, batch[1].k, batch[1].v), Tail(batch))

RECURSIVE SortKeys(_)
SortKeys(S) ==
    IF S = {} THEN <<>>
    ELSE LET m == CHOOSE k \in S : \A o \in S \ {k} : LexLess(k, o)
         IN  <<m>> \o SortKeys(S \ {m})

\* Db::scan_prefix: the keys under the prefix, in byte-wise order
ScanPrefix(store, prefix) ==
    SortKeys({k \in DOMAIN store : StartsWith(k, prefix)})

\* the key the iterator yields after `cursor` (the first key under the prefix
\* when the scan has not started), read from the tree as it is now
ScanNext(store, prefix, started, cursor) ==
    LET S == {k \in DOMAIN store :
                 StartsWith(k, prefix) /\ (started => LexLess(cursor, k))}
    IN  IF S = {} THEN [some |-> FALSE, key |-> <<>>]
        ELSE [some |-> TRUE,
              key |-> CHOOSE k \in S : \A o \in S \ {k} : LexLess(k, o)]

----------------------------------------------------------------------------
(* Read operations of ChronosStore, as functions of the tree they read.    *)

RemoveAt(s, i) == SubSeq(s, 1, i - 1) \o SubSeq(s, i + 1, Len(s))

\* the entries left in scan order
UnsortedSnapshots(s) == s

RECURSIVE SortSnapshots(_)
\* snapshots.sort_by(|a, b| b.timestamp.cmp(&a.timestamp)): stable, descending
SortSnapshots(s) ==
    IF s = <<>> THEN <<>>
    ELSE LET i == MinOf({j \in 1..Len(s) :
                          \A k \in 1..Len(s) : s[k].timestamp <= s[j].timestamp})
         IN  <<s[i]>> \o SortSnapshots(RemoveAt(s, i))

\* the events left in scan order
UnsortedEvents(s) == s

RECURSIVE SortEvents(_)
\* events.sort_by(|a, b| b.0.cmp(&a.0)): stable, descending
SortEvents(s) ==
    IF s = <<>> THEN <<>>
    ELSE LET i == MinOf({j \in 1..Len(s) :
                          \A k \in 1..Len(s) : s[k][1] <= s[j][1]})
         IN  <<s[i]>> \o SortEvents(RemoveAt(s, i))

\* the last `limit` events kept instead of the first
TruncateTail(s, limit) == SubSeq(s, Len(s) - Min(limit, Len(s)) + 1, Len(s))

\* events.truncate(limit)
Truncate(s, limit) == SubSeq(s, 1, Min(limit, Len(s)))

\* the size taken from the decoded content, a blob that does not decode left out
HistoryPushDecoded(snapshots, key, value) ==
    LET ts == ParseI64(RSplitFirst(key))
    IN  IF ts.ok /\ Decode(value).ok
        THEN Append(snapshots, [timestamp |-> ts.val, size |-> Len(Decode(value).val)])
        ELSE snapshots

\* a key that does not parse counted as a snapshot of timestamp 0
HistoryPushDefault(snapshots, key, value) ==
    LET ts == ParseI64(RSplitFirst(key))
    IN  Append(snapshots, [timestamp |-> IF ts.ok THEN ts.val ELSE 0,
                           size |-> Len(value)])

\* body of the scan loop of get_history for one (key, value)
HistoryPush(snapshots, key, value) ==
    LET ts == ParseI64(RSplitFirst(key))
    IN  IF ts.ok
        THEN Append(snapshots, [timestamp |-> ts.val, size |-> Len(value)])
        ELSE snapshots

RECURSIVE HistoryScan(_, _, _)
HistoryScan(store, keys, snapshots) ==
    IF keys = <<>> THEN snapshots
    ELSE HistoryScan(store, Tail(keys),
                     HistoryPush(snapshots, keys[1], store[keys[1]]))

\* a history that decodes every blob it lists and fails on the first bad one
GetHistoryDecoding(store, file_path) ==
    LET prefix == file_path \o <<Colon>>
        keys == ScanPrefix(store, prefix)
    IN  IF \E i \in DOMAIN keys : ~Decode(store[keys[i]]).ok
        THEN [ok |-> FALSE, val |-> <<>>]
        ELSE [ok |-> TRUE, val |-> SortSnapshots(HistoryScan(store, keys, <<>>))]

GetHistory(store, file_path) ==
    LET prefix == file_path \o <<Colon>>
    IN  [ok |-> TRUE,
         val |-> SortSnapshots(HistoryScan(store, ScanPrefix(store, prefix), <<>>))]

\* a missing key reported as an error instead of None
GetSnapshotStrict(store, file_path, timestamp) ==
    LET key == DataKey(file_path, timestamp)
    IN  IF key \in DOMAIN store /\ Decode(store[key]).ok
        THEN [ok |-> TRUE, some |-> TRUE, val |-> Decode(store[key]).val]
        ELSE [ok |-> FALSE, some |-> FALSE, val |-> <<>>]

\* the stored blob returned without decoding
GetSnapshotRaw(store, file_path, timestamp) ==
    LET key == DataKey(file_path, timestamp)
    IN  IF key \in DOMAIN store
        THEN [ok |-> TRUE, some |-> TRUE, val |-> store[key]]
        ELSE [ok |-> TRUE, some |-> FALSE, val |-> <<>>]

GetSnapshot(store, file_path, timestamp) ==
    LET key == DataKey(file_path, timestamp)
    IN  IF key \in DOMAIN store
        THEN LET content == Decode(store[key])
             IN  IF content.ok
                 THEN [ok |-> TRUE, some |-> TRUE, val |-> content.val]
                 ELSE [ok |-> FALSE, some |-> FALSE, val |-> <<>>]
        ELSE [ok |-> TRUE, some |-> FALSE, val |-> <<>>]

\* body of the scan loop of get_global_timeline for one key
TimelinePush(events, key) ==
    LET parts == SplitN3(key)
    IN  IF Len(parts) = 3 /\ ParseI64(parts[2]).ok
        THEN Append(events, <<ParseI64(parts[2]).val, parts[3]>>)
        ELSE events

RECURSIVE TimelineScan(_, _)
TimelineScan(keys, events) ==
    IF keys = <<>> THEN events
    ELSE TimelineScan(Tail(keys), TimelinePush(events, keys[1]))

GetGlobalTimeline(store, limit) ==
    [ok |-> TRUE,
     val |-> Truncate(SortEvents(TimelineScan(ScanPrefix(store, IdxPrefix), <<>>)),
                      limit)]

\* body of the first loop of get_checkpoint_state for one index key
UniqueInsert(unique_files, key, target_timestamp) ==
    LET parts == SplitN3(key)
    IN  IF /\ Len(parts) = 3
           /\ ParseI64(parts[2]).ok
           /\ ParseI64(parts[2]).val <= target_timestamp
        THEN unique_files \cup {parts[3]}
        ELSE unique_files

RECURSIVE UniqueScan(_, _, _)
UniqueScan(keys, unique_files, target_timestamp) ==
    IF keys = <<>> THEN unique_files
    ELSE UniqueScan(Tail(keys),
                    UniqueInsert(unique_files, keys[1], target_timestamp),
                    target_timestamp)

UniqueFiles(store, target_timestamp) ==
    UniqueScan(ScanPrefix(store, IdxPrefix), {}, target_timestamp)

\* body of the second loop of get_checkpoint_state for one path: the pairs it
\* pushes (none or one)
RestoreFile(store, path, target_timestamp) ==
    LET history == GetHistory(store, path).val
        hits == {i \in 1..Len(history) : history[i].timestamp <= target_timestamp}
    IN  IF hits = {} THEN {}
        ELSE LET snapshot == history[MinOf(hits)]
                 got == GetSnapshot(store, path, snapshot.timestamp)
             IN  IF got.ok /\ got.some THEN {<<path, got.val>>} ELSE {}

\* every file of the index restored to its newest snapshot, whatever the target
CheckpointPairsNewest(store, target_timestamp) ==
    UNION {LET history == GetHistory(store, path).val
               got == GetSnapshot(store, path, history[1].timestamp)
           IN  IF history # <<>> /\ got.ok /\ got.some
               THEN {<<path, got.val>>} ELSE {} :
             path \in {e[2] : e \in Range(TimelineScan(ScanPrefix(store, IdxPrefix),
                                                       <<>>))}}

\* the pairs of restored_files; their order in the Vec is the iteration order
\* of the HashSet, which the caller cannot predict
CheckpointPairs(store, target_timestamp) ==
    UNION {RestoreFile(store, path, target_timestamp) :
             path \in UniqueFiles(store, target_timestamp)}

Orderings(S) ==
    {s \in [1..Cardinality(S) -> S] : \A x \in S : \E i \in DOMAIN s : s[i] = x}

GetCheckpointState(store, target_timestamp) ==
    {[ok |-> TRUE, val |-> s] : s \in Orderings(CheckpointPairs(store, target_timestamp))}

----------------------------------------------------------------------------
(* Sentinel: regex_guard::check_patterns.  A pattern is a literal, that    *)
(* is a regular expression without metacharacters, which matches a text    *)
(* when it occurs in it.                                                   *)

\* Regex::is_match for a literal: the pattern occurs somewhere in the text
IsMatch(pattern, text) ==
    \E i \in 0..(Len(text) - Len(pattern)) :
        SubSeq(text, i + 1, i + Len(pattern)) = pattern

\* RegexSet::matches: for every index of the set, whether its pattern matches;
\* the indices of Rust start at 0
SetMatches(text, set) ==
    [i \in 0..(Len(set) - 1) |-> IsMatch(set[i + 1], text)]

\* SetMatches::iter: the indices that matched
MatchedIndices(matches) == {i \in DOMAIN matches : matches[i]}

\* the index of the last pattern that matched
CheckPatternsLast(text, set) ==
    LET matches == SetMatches(text, set)
    IN  IF MatchedIndices(matches) # {}
        THEN [some |-> TRUE, val |-> MaxOf(MatchedIndices(matches))]
        ELSE [some |-> FALSE, val |-> 0]

\* check_patterns; SetMatches::iter yields the indices in ascending order
CheckPatterns(text, set) ==
    LET matches == SetMatches(text, set)
    IN  IF MatchedIndices(matches) # {}
        THEN [some |-> TRUE, val |-> MinOf(MatchedIndices(matches))]
        ELSE [some |-> FALSE, val |-> 0]

\* texts and literal patterns over the letters 'a' and 'b'
GuardTexts == UNION {[1..n -> {97, 98}] : n \in 0..2}
GuardPatterns == {<<97>>, <<98>>, <<97, 98>>, <<98, 97>>}
GuardSets == UNION {[1..n -> GuardPatterns] : n \in 0..MaxPatterns}

----------------------------------------------------------------------------
(* The commit wizard (ui/commit_wizard.rs) and the part of the dashboard   *)
(* that drives it (ui/dashboard.rs).  A text is the sequence of the bytes  *)
(* of its characters; a TextArea of the wizard holds one line, because     *)
(* Enter never reaches it.                                                 *)

Whitespace == {9, 10, 32}

RECURSIVE TrimStart(_)
TrimStart(s) ==
    IF s # <<>> /\ s[1] \in Whitespace THEN TrimStart(Tail(s)) ELSE s

RECURSIVE TrimEnd(_)
TrimEnd(s) ==
    IF s # <<>> /\ s[Len(s)] \in Whitespace
    THEN TrimEnd(SubSeq(s, 1, Len(s) - 1)) ELSE s

\* str::trim
Trim(s) == TrimEnd(TrimStart(s))

\* the values of smart_context::suggest_prefix on a repository with no
\* changes and on one whose status fails: "chore:" and "feat:"
ChorePrefix == <<99, 104, 111, 114, 101, 58>>
FeatPrefix == <<102, 101, 97, 116, 58>>
SmartPrefixes == {ChorePrefix, FeatPrefix}

\* the keys of the terminal: Enter, Esc, Backspace and the characters 'c', 'q'
KeyEnter == [key |-> "Enter", c |-> 0]
KeyEsc == [key |-> "Esc", c |-> 0]
KeyBackspace == [key |-> "Backspace", c |-> 0]
KeyUp == [key |-> "Up", c |-> 0]
KeyDown == [key |-> "Down", c |-> 0]
KeyChar(c) == [key |-> "Char", c |-> c]
CharC == KeyChar(99)
CharQ == KeyChar(113)
CharD == KeyChar(100)
CharH == KeyChar(104)
CharS == KeyChar(115)
CharT == KeyChar(116)
CharZ == KeyChar(122)
CharSpace == KeyChar(32)
CharHelp == KeyChar(63)
Inputs == {KeyEnter, KeyEsc, KeyBackspace, CharC, CharQ}

\* no key read yet
NoInput == [key |-> "None", c |-> 0]

\* CommitWizardState::default()
WizardDefault ==
    [step |-> "Type", type_input |-> <<>>, scope_input |-> <<>>,
     desc_input |-> <<>>, body_input |-> <<>>, footer_input |-> <<>>]

\* CommitWizardState::next_step
NextStep(step) ==
    CASE step = "Type" -> "Scope"
      [] step = "Scope" -> "Description"
      [] step = "Description" -> "Body"
      [] step = "Body" -> "Footer"
      [] step = "Footer" -> "Confirmation"
      [] step = "Confirmation" -> "Confirmation"

\* TextArea::input for a character or Backspace, the cursor at the end
TextAreaInput(text, input) ==
    CASE input.key = "Char" -> Append(text, input.c)
      [] input.key = "Backspace" ->
            IF text = <<>> THEN text ELSE SubSeq(text, 1, Len(text) - 1)
      [] OTHER -> text

\* CommitWizardState::handle_input: the state after the input and the value
\* returned
HandleInput(state, input) ==
    CASE input.key = "Enter" ->
            [state |-> [state EXCEPT !.step = NextStep(state.step)], handled |-> TRUE]
      [] input.key = "Esc" -> [state |-> state, handled |-> TRUE]
      [] OTHER ->
            [state |->
               CASE state.step = "Type" ->
                      [state EXCEPT !.type_input = TextAreaInput(@, input)]
                 [] state.step = "Scope" ->
                      [state EXCEPT !.scope_input = TextAreaInput(@, input)]
                 [] state.step = "Description" ->
                      [state EXCEPT !.desc_input = TextAreaInput(@, input)]
                 [] state.step = "Body" ->
                      [state EXCEPT !.body_input = TextAreaInput(@, input)]
                 [] state.step = "Footer" ->
                      [state EXCEPT !.footer_input = TextAreaInput(@, input)]
                 [] state.step = "Confirmation" -> state,
             handled |-> FALSE]

\* CommitWizardState::format_commit_message
FormatCommitMessage(state) ==
    LET type_ == state.type_input
        scope == state.scope_input
        desc == state.desc_input
        body == state.body_input
        footer == state.footer_input
        header == IF scope = <<>>
                  THEN type_ \o <<58, 32>> \o desc
                  ELSE type_ \o <<40>> \o scope \o <<41, 58, 32>> \o desc
        with_body == IF Trim(body) # <<>> THEN header \o <<10, 10>> \o body
                     ELSE header
    IN  IF Trim(footer) # <<>> THEN with_body \o <<10, 10>> \o footer
        ELSE with_body

----------------------------------------------------------------------------
(* The dashboard (ui/dashboard.rs): the files of the git status, the       *)
(* sentinel scan, and the modals.  The repository is the set of paths with *)
(* staged changes (index) and the set of paths whose working file differs  *)
(* from the index (dirty); the working directory is the content of each    *)
(* file.                                                                   *)

\* the files of the working directory: "a" and "b"
UiPaths == {PathA, PathB}

\* config.sentinel.secret_patterns: one literal pattern, the byte 7
SecretPatterns == <<(<<7>>)>>

\* Sentinel::scan_file on a file with this content: the issue of the regex
\* guard; no path of UiPaths has a binary extension and no content of Contents
\* has high entropy
ScanFile(content) ==
    IF CheckPatterns(content, SecretPatterns).some
    THEN <<"Secret pattern detected">>
    ELSE <<>>

\* GitRepository::status: the paths with changes, in path order, with the
\* flags of git2::Status as Debug prints them
RepoStatus(g) ==
    LET paths == SortKeys(g.index \cup g.dirty)
    IN  [i \in 1..Len(paths) |->
           [path |-> paths[i],
            status |-> IF paths[i] \in g.index /\ paths[i] \in g.dirty
                       THEN "INDEX_MODIFIED | WT_MODIFIED"
                       ELSE IF paths[i] \in g.index THEN "INDEX_MODIFIED"
                       ELSE "WT_MODIFIED"]]

\* the FileItems that App::new and refresh_status build from the status
FileItems(g) ==
    LET statuses == RepoStatus(g)
    IN  [i \in 1..Len(statuses) |->
           [path |-> statuses[i].path, status |-> statuses[i].status,
            issues |-> <<>>]]

\* GitRepository::add, unstage, commit and a write to a working file
GitAdd(g, path) == [index |-> g.index \cup {path}, dirty |-> g.dirty \ {path}]
GitUnstage(g, path) == [index |-> g.index \ {path}, dirty |-> g.dirty \cup {path}]
GitCommit(g) == [g EXCEPT !.index = {}]
GitWrite(g, path) == [g EXCEPT !.dirty = @ \cup {path}]

\* ListState::selected of a modal: None
NoSelection == [some |-> FALSE, i |-> 0]
Selected(i) == [some |-> TRUE, i |-> i]

\* no commit made yet in the session
NoCommits == [count |-> 0, message |-> <<>>]

\* App::new: the repository of the working directory opened or not
AppNew(repo, smart_prefix, g) ==
    [repo |-> repo,
     smart_prefix |-> smart_prefix,
     files |-> IF repo THEN FileItems(g) ELSE <<>>,
     selected_index |-> 0,
     zen_mode |-> FALSE,
     commit_wizard_active |-> FALSE,
     commit_wizard_state |-> WizardDefault,
     show_history_modal |-> FALSE,
     history_items |-> <<>>,
     history_state |-> NoSelection,
     show_diff_modal |-> FALSE,
     diff_hunks |-> 0,
     show_time_machine_modal |-> FALSE,
     time_machine_events |-> <<>>,
     time_machine_state |-> NoSelection,
     show_help_modal |-> FALSE,
     log |-> IF repo THEN "Repository connected." ELSE "Failed to open repo",
     running |-> TRUE]

\* App::refresh_status; repo.status() succeeds whenever the repository is open
RefreshStatus(a, g) ==
    IF a.repo THEN [a EXCEPT !.files = FileItems(g)] ELSE a

\* self.files.get(self.selected_index): the position in files, 0 for None
SelectedFile(a) ==
    IF a.selected_index < Len(a.files) THEN a.selected_index + 1 ELSE 0

\* App::scan_selected
ScanSelected(a, d) ==
    IF SelectedFile(a) = 0 THEN a
    ELSE [a EXCEPT !.files[SelectedFile(a)].issues =
                       ScanFile(d[a.files[SelectedFile(a)].path])]

\* App::next
AppNext(a, d) ==
    IF a.files = <<>> THEN a
    ELSE ScanSelected([a EXCEPT !.selected_index = (@ + 1) % Len(a.files)], d)

\* App::previous
AppPrevious(a, d) ==
    IF a.files = <<>> THEN a
    ELSE ScanSelected([a EXCEPT !.selected_index =
                           IF @ > 0 THEN @ - 1 ELSE Len(a.files) - 1], d)

\* App::open_commit_modal
OpenCommitModal(a) ==
    LET clean_prefix == SelectSeq(a.smart_prefix, LAMBDA ch : ch # Colon)
        type_val == Trim(clean_prefix)
    IN  [a EXCEPT !.commit_wizard_active = TRUE,
                  !.commit_wizard_state =
                      IF type_val # <<>>
                      THEN [WizardDefault EXCEPT !.type_input = type_val]
                      ELSE WizardDefault]

\* what a key handler reads and writes besides the store: the app, the
\* commits made, the repository and the working directory
World(a, made, g, d) == [app |-> a, commits |-> made, git |-> g, disk |-> d]

\* App::perform_commit; outcome is what repo.commit returns
PerformCommit(w, outcome) ==
    IF ~w.app.repo THEN w
    ELSE LET message == FormatCommitMessage(w.app.commit_wizard_state)
         IN  IF Trim(message) = <<>>
             THEN [w EXCEPT !.app.log = "Commit abortado"]
             ELSE IF outcome = "Ok"
             THEN [w EXCEPT
                     !.app = RefreshStatus(
                                 [@ EXCEPT !.log = "Commit exitoso",
                                           !.commit_wizard_active = FALSE,
                                           !.commit_wizard_state = WizardDefault],
                                 GitCommit(w.git)),
                     !.commits = [count |-> @.count + 1, message |-> message],
                     !.git = GitCommit(@)]
             ELSE [w EXCEPT !.app.log = "Error en commit"]

\* App::load_history
LoadHistory(w, store) ==
    IF SelectedFile(w.app) = 0 THEN w
    ELSE LET snapshots == GetHistory(store, w.app.files[SelectedFile(w.app)].path).val
         IN  [w EXCEPT !.app.history_items = snapshots,
                       !.app.show_history_modal = TRUE,
                       !.app.history_state =
                           IF snapshots # <<>> THEN Selected(0) ELSE NoSelection,
                       !.app.log = "Loaded snapshots"]

\* App::restore_snapshot; outcome is what fs::write returns
RestoreSnapshot(w, store, outcome) ==
    LET a == w.app
        selected == a.history_state
    IN  IF ~selected.some \/ selected.i >= Len(a.history_items) \/ SelectedFile(a) = 0
        THEN w
        ELSE LET path == a.files[SelectedFile(a)].path
                 got == GetSnapshot(store, path,
                                    a.history_items[selected.i + 1].timestamp)
             IN  IF got.ok /\ got.some
                 THEN IF outcome = "Ok"
                      THEN [w EXCEPT
                              !.disk = [p \in DOMAIN @ \cup {path} |->
                                          IF p = path THEN got.val ELSE @[p]],
                              !.git = GitWrite(@, path),
                              !.app = RefreshStatus(
                                          [@ EXCEPT !.log = "Restored snapshot",
                                                    !.show_history_modal = FALSE],
                                          GitWrite(w.git, path))]
                      ELSE [w EXCEPT !.app.log = "Error restoring file"]
                 ELSE IF got.ok
                 THEN [w EXCEPT !.app.log = "Snapshot content not found."]
                 ELSE [w EXCEPT !.app.log = "Error retrieving snapshot"]

\* App::open_time_machine
OpenTimeMachine(w, store) ==
    LET events == GetGlobalTimeline(store, TimeMachineLimit).val
    IN  [w EXCEPT !.app.time_machine_events = events,
                  !.app.show_time_machine_modal = TRUE,
                  !.app.time_machine_state =
                      IF events # <<>> THEN Selected(0) ELSE NoSelection,
                  !.app.log = "Loaded global timeline events"]

\* App::restore_time_machine; outcome is what every fs::write returns.  The
\* pairs of the checkpoint have different paths, so the order of the writes
\* does not show in the working directory
RestoreTimeMachine(w, store, outcome) ==
    LET a == w.app
        selected == a.time_machine_state
    IN  IF ~selected.some \/ selected.i >= Len(a.time_machine_events) THEN w
        ELSE LET timestamp == a.time_machine_events[selected.i + 1][1]
                 files == IF outcome = "Ok" THEN CheckpointPairs(store, timestamp)
                          ELSE {}
                 paths == {f[1] : f \in files}
                 g == [w.git EXCEPT !.dirty = @ \cup paths]
             IN  [w EXCEPT
                    !.disk = [p \in DOMAIN @ \cup paths |->
                                IF p \in paths
                                THEN (CHOOSE f \in files : f[1] = p)[2]
                                ELSE @[p]],
                    !.git = g,
                    !.app = RefreshStatus(
                                [@ EXCEPT !.log = "GHOST BRANCH ACTIVE",
                                          !.show_time_machine_modal = FALSE],
                                g)]

\* App::load_diff: the working file against HEAD, one hunk if they differ
LoadDiff(w) ==
    IF SelectedFile(w.app) = 0 THEN w
    ELSE LET path == w.app.files[SelectedFile(w.app)].path
         IN  [w EXCEPT !.app.diff_hunks =
                           IF path \in w.git.index \cup w.git.dirty THEN 1 ELSE 0,
                       !.app.show_diff_modal = TRUE]

\* App::stage_selected_hunk; outcome is what repo.apply_patch returns
StageSelectedHunk(w, outcome) ==
    IF w.app.diff_hunks = 0 \/ ~w.app.repo THEN w
    ELSE IF outcome = "Ok"
    THEN LoadDiff([w EXCEPT !.app.log = "Hunk staged successfully.",
                            !.git = IF SelectedFile(w.app) = 0 THEN @
                                    ELSE GitAdd(@, w.app.files[SelectedFile(w.app)].path)])
    ELSE [w EXCEPT !.app.log = "Failed to stage hunk"]

\* file.status.contains("Index") || file.status == "Staged"; no status that
\* git2 prints contains "Index", it prints the flags in capitals
IsStaged(status) == status = "Staged"

\* the Space key: stage or unstage the selected file; outcome is what
\* repo.unstage or repo.add returns
StageOrUnstage(w, outcome) ==
    IF ~w.app.repo \/ SelectedFile(w.app) = 0 THEN w
    ELSE LET i == SelectedFile(w.app)
             file == w.app.files[i]
         IN  IF IsStaged(file.status)
             THEN IF outcome = "Ok"
                  THEN [w EXCEPT !.app.files[i].status = "Modified",
                                 !.app.log = "Unstaged",
                                 !.git = GitUnstage(@, file.path)]
                  ELSE [w EXCEPT !.app.log = "Error unstaging"]
             ELSE IF file.issues # <<>>
                  THEN [w EXCEPT !.app.log = "BLOQUEADO"]
                  ELSE IF outcome = "Ok"
                  THEN [w EXCEPT !.app.files[i].status = "Staged",
                                 !.app.log = "Staged",
                                 !.git = GitAdd(@, file.path)]
                  ELSE [w EXCEPT !.app.log = "Error"]

----------------------------------------------------------------------------
(* State.                                                                  *)
(*   db      the sled tree                                                 *)
(*   last    the latest completed call on the store and what it returned   *)
(*   saved   for each (file_path, timestamp) of a save that succeeded, the *)
(*           content of the latest such save                               *)
(*   rd      the read call in progress on the UI thread (SpecConc)         *)
(*   seen    what the calls of the UI thread have shown it so far: the     *)
(*           (file_path, timestamp) of snapshots and the (timestamp,       *)
(*           file_path) of timeline pairs (SpecConc)                       *)
(*   app     the fields of App that the key handlers read and write, the   *)
(*           latest line of its log, and whether run_app is still in its   *)
(*           loop                                                          *)
(*   commits the number of commits made in the repository and the message  *)
(*           of the newest one                                             *)
(*   pressed the key that the latest pass of run_app handled               *)
(*   handled the number of keys handled, counted up to MaxKeys             *)
(*   git     the repository: the paths with staged changes (index) and     *)
(*           with unstaged changes (dirty)                                 *)
(*   disk    the content of each working file                              *)
(*   chan    the channel from the notify backend to the watcher loop       *)
(*   watcher the watcher thread (SpecWatch)                                *)

NoCall == [op |-> "none"]

InitStore ==
    /\ db = EmptyDb
    /\ last = NoCall
    /\ saved = EmptyDb
    /\ rd = NoCall
    /\ seen = [data |-> {}, idx |-> {}]

\* watch before its loop: the store opened or not (store), the loop over the
\* channel about to run (running); of the latest pass of the loop, the event
\* it took (event), what fs::read returned (read) and the calls of
\* save_snapshot it made (calls); the passes made (passes) and whether some
\* pass met a failure (failed)
NoEvent == [ok |-> FALSE, kind |-> "None", paths |-> <<>>]
NoRead == [ok |-> FALSE, content |-> <<>>]

WatcherNew(store) ==
    [store |-> store, running |-> TRUE, passes |-> 0, event |-> NoEvent,
     read |-> NoRead, calls |-> <<>>, failed |-> FALSE]

InitWatcher ==
    /\ chan = <<>>
    /\ watcher = WatcherNew(TRUE)

Init ==
    /\ InitStore
    /\ InitWatcher
    /\ git = [index |-> {}, dirty |-> UiPaths]
    /\ disk = [p \in UiPaths |-> <<>>]
    /\ app = AppNew(TRUE, FeatPrefix, git)
    /\ commits = NoCommits
    /\ pressed = NoInput
    /\ handled = 0

\* what save_snapshot returning Ok(()) does to the store; timestamp is the
\* clock reading
StoreSave(file_path, content, timestamp) ==
    /\ LET compressed == Encode(content)
           data_key == DataKey(file_path, timestamp)
           time_key == TimeKey(timestamp, file_path)
           batch == <<[k |-> data_key, v |-> compressed],
                      [k |-> time_key, v |-> <<>>]>>
       IN  db' = ApplyBatch(db, batch)
    /\ last' = [op |-> "save_snapshot", ok |-> TRUE, file_path |-> file_path,
                content |-> content, timestamp |-> timestamp]
    /\ saved' = Insert(saved, <<file_path, timestamp>>, content)

\* save_snapshot returning Ok(())
SaveSnapshot(file_path, content, timestamp) ==
    /\ StoreSave(file_path, content, timestamp)
    /\ UNCHANGED <<rd, seen, uivars, watchvars>>

\* a save that inserts its primary record on its own and fails before the
\* index marker
SaveSnapshotErrPartial(file_path, content) ==
    /\ \E t \in Timestamps :
          db' = Insert(db, DataKey(file_path, t), Encode(content))
    /\ last' = [op |-> "save_snapshot", ok |-> FALSE, file_path |-> file_path,
                content |-> content, timestamp |-> 0]
    /\ UNCHANGED <<saved, rd, seen, uivars, watchvars>>

\* save_snapshot returning Err: encode_all or apply_batch failed, nothing is
\* written
SaveSnapshotErr(file_path, content) ==
    /\ last' = [op |-> "save_snapshot", ok |-> FALSE, file_path |-> file_path,
                content |-> content, timestamp |-> 0]
    /\ UNCHANGED <<db, saved, rd, seen, uivars, watchvars>>

\* a get_snapshot that drops the record it cannot decode
GetSnapshotCallEvicting(file_path, timestamp) ==
    /\ last' = [op |-> "get_snapshot", file_path |-> file_path,
                timestamp |-> timestamp,
                result |-> GetSnapshot(db, file_path, timestamp)]
    /\ db' = IF GetSnapshot(db, file_path, timestamp).ok THEN db
             ELSE [k \in DOMAIN db \ {DataKey(file_path, timestamp)} |-> db[k]]
    /\ UNCHANGED <<saved, rd, seen, uivars, watchvars>>

GetSnapshotCall(file_path, timestamp) ==
    /\ last' = [op |-> "get_snapshot", file_path |-> file_path,
                timestamp |-> timestamp,
                result |-> GetSnapshot(db, file_path, timestamp)]
    /\ UNCHANGED <<db, saved, rd, seen, uivars, watchvars>>

GetHistoryCall(file_path) ==
    /\ last' = [op |-> "get_history", file_path |-> file_path,
                result |-> GetHistory(db, file_path)]
    /\ UNCHANGED <<db, saved, rd, seen, uivars, watchvars>>

GetGlobalTimelineCall(limit) ==
    /\ last' = [op |-> "get_global_timeline", limit |-> limit,
                result |-> GetGlobalTimeline(db, limit)]
    /\ UNCHANGED <<db, saved, rd, seen, uivars, watchvars>>

GetCheckpointStateCall(target_timestamp) ==
    /\ \E r \in GetCheckpointState(db, target_timestamp) :
          last' = [op |-> "get_checkpoint_state",
                   target_timestamp |-> target_timestamp, result |-> r]
    /\ UNCHANGED <<db, saved, rd, seen, uivars, watchvars>>

\* the model stops saving new (file_path, timestamp) pairs at the bound
Room(file_path, timestamp, bound) ==
    Cardinality(DOMAIN saved \cup {<<file_path, timestamp>>}) <= bound

Next ==
    \/ \E p \in Paths, c \in Contents, t \in Timestamps :
          Room(p, t, MaxSaves) /\ SaveSnapshot(p, c, t)
    \/ \E p \in Paths, c \in Contents : SaveSnapshotErr(p, c)
    \/ \E p \in Paths, t \in Timestamps : GetSnapshotCall(p, t)
    \/ \E p \in Paths : GetHistoryCall(p)
    \/ \E k \in Limits : GetGlobalTimelineCall(k)
    \/ \E T \in Targets : GetCheckpointStateCall(T)

Spec == Init /\ [][Next]_vars

\* the calls of save_snapshot alone, those that succeed and those that fail
NextFailing ==
    \/ \E p \in Paths, c \in Contents, t \in Timestamps :
          Room(p, t, MaxFailingSaves) /\ SaveSnapshot(p, c, t)
    \/ \E p \in Paths, c \in Contents : SaveSnapshotErr(p, c)

SpecFailing == Init /\ [][NextFailing]_vars

----------------------------------------------------------------------------
(* The watcher thread saves while the UI thread reads (main.rs).  A scan   *)
(* of the UI thread advances one key at a time; apply_batch of the writer  *)
(* may take place between any two of its steps.                            *)

Idle == rd.op = "none"

UiGetSnapshot(file_path, timestamp) ==
    /\ Idle
    /\ LET result == GetSnapshot(db, file_path, timestamp)
       IN  /\ last' = [op |-> "get_snapshot", file_path |-> file_path,
                       timestamp |-> timestamp, result |-> result]
           /\ seen' = IF result.ok /\ result.some
                      THEN [seen EXCEPT !.data = @ \cup {<<file_path, timestamp>>}]
                      ELSE seen
    /\ UNCHANGED <<db, saved, rd, uivars, watchvars>>

UiBeginGetHistory(file_path) ==
    /\ Idle
    /\ rd' = [op |-> "get_history", file_path |-> file_path, limit |-> 0,
              prefix |-> file_path \o <<Colon>>,
              started |-> FALSE, cursor |-> <<>>, acc |-> <<>>]
    /\ UNCHANGED <<db, last, saved, seen, uivars, watchvars>>

UiBeginGetGlobalTimeline(limit) ==
    /\ Idle
    /\ rd' = [op |-> "get_global_timeline", file_path |-> <<>>, limit |-> limit,
              prefix |-> IdxPrefix,
              started |-> FALSE, cursor |-> <<>>, acc |-> <<>>]
    /\ UNCHANGED <<db, last, saved, seen, uivars, watchvars>>

\* one iteration of the scan loop: the iterator yields the next key
UiScanItem ==
    /\ ~Idle
    /\ LET item == ScanNext(db, rd.prefix, rd.started, rd.cursor)
       IN  /\ item.some
           /\ rd' = [rd EXCEPT
                       !.started = TRUE,
                       !.cursor = item.key,
                       !.acc = IF rd.op = "get_history"
                               THEN HistoryPush(@, item.key, db[item.key])
                               ELSE TimelinePush(@, item.key)]
    /\ UNCHANGED <<db, last, saved, seen, uivars, watchvars>>

\* the iterator is exhausted: sort, truncate and return
UiScanEnd ==
    /\ ~Idle
    /\ ~ScanNext(db, rd.prefix, rd.started, rd.cursor).some
    /\ IF rd.op = "get_history"
       THEN LET val == SortSnapshots(rd.acc)
            IN  /\ last' = [op |-> "get_history", file_path |-> rd.file_path,
                            result |-> [ok |-> TRUE, val |-> val]]
                /\ seen' = [seen EXCEPT !.data =
                              @ \cup {<<rd.file_path, e.timestamp>> : e \in Range(val)}]
       ELSE LET val == Truncate(SortEvents(rd.acc), rd.limit)
            IN  /\ last' = [op |-> "get_global_timeline", limit |-> rd.limit,
                            result |-> [ok |-> TRUE, val |-> val]]
                /\ seen' = [seen EXCEPT !.idx = @ \cup Range(val)]
    /\ rd' = NoCall
    /\ UNCHANGED <<db, saved, uivars, watchvars>>

NextConc ==
    \/ \E p \in Paths, c \in ConcContents, t \in Timestamps :
          Room(p, t, MaxConcSaves) /\ SaveSnapshot(p, c, t)
    \/ \E p \in Paths, t \in Timestamps : UiGetSnapshot(p, t)
    \/ \E p \in Paths : UiBeginGetHistory(p)
    \/ \E k \in Limits : UiBeginGetGlobalTimeline(k)
    \/ UiScanItem
    \/ UiScanEnd

SpecConc == Init /\ [][NextConc]_vars

----------------------------------------------------------------------------
(* get_checkpoint_state on the UI thread while the watcher thread saves.   *)
(* The call scans the index one key at a time, then for each file it found *)
(* scans the history of the file one key at a time and makes one point     *)
(* lookup; apply_batch of the writer may take place between any two of     *)
(* these steps.  rd holds the call in progress: its target, its phase, the *)
(* position of the scan, unique_files, the files still to restore (todo),  *)
(* restored_files, and the tree as it was when the call began (start).     *)

\* the files that are saved while a checkpoint is read: "a" and "a:b"
CkPaths == {PathA, PathAB}

Reading == rd.op = "get_checkpoint_state"

\* save_snapshot by the writer; while a call of get_checkpoint_state is in
\* progress the clock is past its target
CkSave(file_path, content, timestamp) ==
    /\ Reading => timestamp > rd.target
    /\ Room(file_path, timestamp, MaxCkSaves)
    /\ SaveSnapshot(file_path, content, timestamp)

CkBegin(target_timestamp) ==
    /\ Idle
    /\ rd' = [op |-> "get_checkpoint_state", target |-> target_timestamp,
              phase |-> "index", started |-> FALSE, cursor |-> <<>>,
              unique_files |-> {}, todo |-> {}, path |-> <<>>, acc |-> <<>>,
              timestamp |-> 0, restored_files |-> {}, start |-> db]
    /\ UNCHANGED <<db, last, saved, seen, uivars, watchvars>>

\* one iteration of the first loop: the iterator yields the next index key
CkIndexItem ==
    /\ Reading /\ rd.phase = "index"
    /\ LET item == ScanNext(db, IdxPrefix, rd.started, rd.cursor)
       IN  /\ item.some
           /\ rd' = [rd EXCEPT
                       !.started = TRUE,
                       !.cursor = item.key,
                       !.unique_files = UniqueInsert(@, item.key, rd.target)]
    /\ UNCHANGED <<db, last, saved, seen, uivars, watchvars>>

\* the first loop ends
CkIndexEnd ==
    /\ Reading /\ rd.phase = "index"
    /\ ~ScanNext(db, IdxPrefix, rd.started, rd.cursor).some
    /\ rd' = [rd EXCEPT !.phase = "files", !.todo = rd.unique_files]
    /\ UNCHANGED <<db, last, saved, seen, uivars, watchvars>>

\* the second loop takes a path of the HashSet, in any order, and get_history
\* begins its scan
CkFile(path) ==
    /\ Reading /\ rd.phase = "files"
    /\ path \in rd.todo
    /\ rd' = [rd EXCEPT !.phase = "history", !.path = path,
                        !.todo = @ \ {path},
                        !.started = FALSE, !.cursor = <<>>, !.acc = <<>>]
    /\ UNCHANGED <<db, last, saved, seen, uivars, watchvars>>

\* one iteration of the scan of get_history
CkHistoryItem ==
    /\ Reading /\ rd.phase = "history"
    /\ LET item == ScanNext(db, rd.path \o <<Colon>>, rd.started, rd.cursor)
       IN  /\ item.some
           /\ rd' = [rd EXCEPT
                       !.started = TRUE,
                       !.cursor = item.key,
                       !.acc = HistoryPush(@, item.key, db[item.key])]
    /\ UNCHANGED <<db, last, saved, seen, uivars, watchvars>>

\* the newest snapshot at or before the target, wrongly: the newest one
CheckpointHitNewest(history, target_timestamp) ==
    IF history = <<>> THEN [some |-> FALSE, timestamp |-> 0]
    ELSE [some |-> TRUE, timestamp |-> history[1].timestamp]

\* history.iter().find(|s| s.timestamp <= target_timestamp)
CheckpointHit(history, target_timestamp) ==
    LET hits == {i \in 1..Len(history) : history[i].timestamp <= target_timestamp}
    IN  IF hits = {} THEN [some |-> FALSE, timestamp |-> 0]
        ELSE [some |-> TRUE, timestamp |-> history[MinOf(hits)].timestamp]

\* get_history returns its sorted list and find looks for the snapshot
CkHistoryEnd ==
    /\ Reading /\ rd.phase = "history"
    /\ ~ScanNext(db, rd.path \o <<Colon>>, rd.started, rd.cursor).some
    /\ LET hit == CheckpointHit(SortSnapshots(rd.acc), rd.target)
       IN  rd' = IF hit.some
                 THEN [rd EXCEPT !.phase = "lookup", !.timestamp = hit.timestamp]
                 ELSE [rd EXCEPT !.phase = "files"]
    /\ UNCHANGED <<db, last, saved, seen, uivars, watchvars>>

\* get_snapshot of the snapshot found, and the push
CkLookup ==
    /\ Reading /\ rd.phase = "lookup"
    /\ LET got == GetSnapshot(db, rd.path, rd.timestamp)
       IN  rd' = [rd EXCEPT
                    !.phase = "files",
                    !.restored_files =
                        IF got.ok /\ got.some THEN @ \cup {<<rd.path, got.val>>}
                        ELSE @]
    /\ UNCHANGED <<db, last, saved, seen, uivars, watchvars>>

\* the second loop ends and the call returns; alone is what the call would
\* have returned on the tree as it was when it began, raced whether the
\* writer saved in between
CkEnd ==
    /\ Reading /\ rd.phase = "files" /\ rd.todo = {}
    /\ \E val \in Orderings(rd.restored_files) :
          last' = [op |-> "get_checkpoint_state", target_timestamp |-> rd.target,
                   result |-> [ok |-> TRUE, val |-> val],
                   alone |-> CheckpointPairs(rd.start, rd.target),
                   raced |-> db # rd.start]
    /\ rd' = NoCall
    /\ UNCHANGED <<db, saved, seen, uivars, watchvars>>

NextCheckpoint ==
    \/ \E p \in CkPaths, c \in Contents, t \in Timestamps : CkSave(p, c, t)
    \/ \E T \in Targets : CkBegin(T)
    \/ CkIndexItem
    \/ CkIndexEnd
    \/ \E p \in CkPaths : CkFile(p)
    \/ CkHistoryItem
    \/ CkHistoryEnd
    \/ CkLookup
    \/ CkEnd

SpecCheckpoint == Init /\ [][NextCheckpoint]_vars

----------------------------------------------------------------------------
(* A stored blob is damaged from outside the store (spec section 8,        *)
(* "a manually corrupted snapshot blob"): the file of the tree is cut      *)
(* short, so the blob loses its last byte.                                 *)

Truncated(blob) == SubSeq(blob, 1, Len(blob) - 1)

\* the blob of (file_path, timestamp) is no longer the one save_snapshot wrote
Corrupted(file_path, timestamp) ==
    /\ <<file_path, timestamp>> \in DOMAIN saved
    /\ db[DataKey(file_path, timestamp)] # Encode(saved[<<file_path, timestamp>>])

CorruptBlob(file_path, timestamp) ==
    /\ <<file_path, timestamp>> \in DOMAIN saved
    /\ ~Corrupted(file_path, timestamp)
    /\ db' = Insert(db, DataKey(file_path, timestamp),
                    Truncated(db[DataKey(file_path, timestamp)]))
    /\ last' = [op |-> "corrupt", file_path |-> file_path,
                timestamp |-> timestamp]
    /\ UNCHANGED <<saved, rd, seen, uivars, watchvars>>

NextCorrupt ==
    \/ \E p \in Paths, c \in Contents, t \in Timestamps :
          Room(p, t, MaxDamagedSaves) /\ SaveSnapshot(p, c, t)
    \/ \E p \in Paths, t \in Timestamps : CorruptBlob(p, t)
    \/ \E p \in Paths, t \in Timestamps : GetSnapshotCall(p, t)
    \/ \E p \in Paths : GetHistoryCall(p)
    \/ \E k \in Limits : GetGlobalTimelineCall(k)
    \/ \E T \in Targets : GetCheckpointStateCall(T)

SpecCorrupt == Init /\ [][NextCorrupt]_vars

----------------------------------------------------------------------------
(* File paths that meet the prefix of the index.  save_snapshot takes any  *)
(* string as file_path, so the data keys of "__time_idx__" and of          *)
(* "__time_idx__:x" lie under the prefix that get_global_timeline and      *)
(* get_checkpoint_state scan, and the index keys lie under the prefix that *)
(* get_history("__time_idx__") scans; none of them has an integer where    *)
(* the scan looks for the timestamp.                                       *)

\* the keys that the scan of get_history(file_path) visits
HistoryKeys(store, file_path) ==
    {k \in DOMAIN store : StartsWith(k, file_path \o <<Colon>>)}

\* ... and those of them whose field after the last ':' is an i64
WellFormedHistoryKeys(store, file_path) ==
    {k \in HistoryKeys(store, file_path) : ParseI64(RSplitFirst(k)).ok}

\* the keys under "__time_idx__:" that have three fields, the second an i64
WellFormedIndexKeys(store) ==
    {k \in DOMAIN store : /\ StartsWith(k, IdxPrefix)
                          /\ Len(SplitN3(k)) = 3
                          /\ ParseI64(SplitN3(k)[2]).ok}

\* the (timestamp, file_path) pair of a well-formed index key
IndexPairOf(k) == <<ParseI64(SplitN3(k)[2]).val, SplitN3(k)[3]>>

NextReserved ==
    \/ \E p \in ReservedPaths, c \in Contents, t \in Timestamps :
          Room(p, t, MaxReservedSaves) /\ SaveSnapshot(p, c, t)
    \/ \E p \in ReservedPaths, t \in Timestamps : GetSnapshotCall(p, t)
    \/ \E p \in ReservedPaths : GetHistoryCall(p)
    \/ \E k \in Limits : GetGlobalTimelineCall(k)
    \/ \E T \in Targets : GetCheckpointStateCall(T)

SpecReserved == Init /\ [][NextReserved]_vars

----------------------------------------------------------------------------
(* The keys of save_snapshot for file paths of every shape: empty, with a  *)
(* ':' at either end or inside, ending in digits, and the index prefix.    *)

\* "", "a", "a:b", "a:9", ":", "a:", "9", "__time_idx__"
KeyPaths ==
    {<<>>, PathA, PathAB, <<97, 58, 57>>, <<58>>, <<97, 58>>, <<57>>, PathIdx}

NextKeys ==
    \/ \E p \in KeyPaths, t \in Timestamps :
          Room(p, t, MaxKeySaves) /\ SaveSnapshot(p, <<>>, t)
    \/ \E k \in Limits : GetGlobalTimelineCall(k)

SpecKeys == Init /\ [][NextKeys]_vars

----------------------------------------------------------------------------
(* Calls of check_patterns on the texts and the pattern sets above.        *)

CheckPatternsCall(text, set) ==
    /\ last' = [op |-> "check_patterns", text |-> text, set |-> set,
                result |-> CheckPatterns(text, set)]
    /\ UNCHANGED <<db, saved, rd, seen, uivars, watchvars>>

NextGuard == \E text \in GuardTexts, set \in GuardSets : CheckPatternsCall(text, set)

SpecGuard == Init /\ [][NextGuard]_vars

----------------------------------------------------------------------------
(* The event loop of the dashboard (run_app): every key press is one pass  *)
(* of the loop, which draws the screen from the state before the key and   *)
(* then handles the key in the first arm of the match that accepts it.     *)

\* App::new with the repository opened, with one of the prefixes, or not; the
\* two working files have changes, with any of the contents
InitUi ==
    /\ InitStore
    /\ InitWatcher
    /\ git = [index |-> {}, dirty |-> UiPaths]
    /\ disk \in [UiPaths -> Contents]
    /\ \/ app = AppNew(FALSE, <<>>, git)
       \/ \E smart_prefix \in SmartPrefixes : app = AppNew(TRUE, smart_prefix, git)
    /\ commits = NoCommits
    /\ pressed = NoInput
    /\ handled = 0

\* the length of the longest common prefix of two texts
CommonPrefix(a, b) ==
    MaxOf({n \in 0..Min(Len(a), Len(b)) : SubSeq(a, 1, n) = SubSeq(b, 1, n)})

\* the model stops typing when the texts of the wizard hold MaxText typed
\* characters, that is characters beyond what is left of the text the wizard
\* opened with
TextRoom(input) ==
    (app.commit_wizard_active /\ input.key = "Char") =>
        LET state == app.commit_wizard_state
            opened == OpenCommitModal(app).commit_wizard_state.type_input
        IN  Len(state.type_input) + Len(state.scope_input) + Len(state.desc_input)
              + Len(state.body_input) + Len(state.footer_input)
                < MaxText + CommonPrefix(state.type_input, opened)

\* the match without the arm that swallows the other keys of the history
\* modal
BranchHistoryOpen(a, input) ==
    IF /\ input = CharQ
       /\ ~a.commit_wizard_active
       /\ ~a.show_history_modal
       /\ ~a.show_diff_modal
       /\ ~a.show_time_machine_modal
    THEN "quit"
    ELSE IF a.commit_wizard_active THEN "wizard"
    ELSE IF a.show_history_modal /\ input.key \in {"Esc", "Enter", "Down", "Up"}
    THEN "history"
    ELSE IF a.show_diff_modal THEN "diff"
    ELSE IF a.show_time_machine_modal THEN "time_machine"
    ELSE "normal"

\* the match with a quit arm that does not look at the diff modal
BranchQuitInDiff(a, input) ==
    IF /\ input = CharQ
       /\ ~a.commit_wizard_active
       /\ ~a.show_history_modal
       /\ ~a.show_time_machine_modal
    THEN "quit"
    ELSE IF a.commit_wizard_active THEN "wizard"
    ELSE IF a.show_history_modal /\ input.key \in {"Esc", "Enter", "Down", "Up"}
    THEN "history"
    ELSE IF a.show_diff_modal THEN "diff"
    ELSE IF a.show_time_machine_modal THEN "time_machine"
    ELSE IF a.show_history_modal THEN "blocked"
    ELSE "normal"

\* the arm of the match in run_app that takes the input
Branch(a, input) ==
    IF /\ input = CharQ
       /\ ~a.commit_wizard_active
       /\ ~a.show_history_modal
       /\ ~a.show_diff_modal
       /\ ~a.show_time_machine_modal
    THEN "quit"
    ELSE IF a.commit_wizard_active THEN "wizard"
    ELSE IF a.show_history_modal /\ input.key \in {"Esc", "Enter", "Down", "Up"}
    THEN "history"
    ELSE IF a.show_diff_modal THEN "diff"
    ELSE IF a.show_time_machine_modal THEN "time_machine"
    ELSE IF a.show_history_modal THEN "blocked"
    ELSE "normal"

\* the state that the key handler starts from, and the state after the key
Current == World(app, commits, git, disk)

After(w, input) ==
    /\ app' = w.app
    /\ commits' = w.commits
    /\ git' = w.git
    /\ disk' = w.disk
    /\ pressed' = input
    /\ handled' = IF handled < MaxKeys THEN handled + 1 ELSE handled
    /\ UNCHANGED <<storevars, watchvars>>

\* Down and Up in a list modal: the selection after the key
ListDown(selected, len) ==
    IF len = 0 THEN selected
    ELSE Selected(IF selected.some
                  THEN (IF selected.i >= len - 1 THEN 0 ELSE selected.i + 1)
                  ELSE 0)

ListUp(selected, len) ==
    IF len = 0 THEN selected
    ELSE Selected(IF selected.some
                  THEN (IF selected.i = 0 THEN len - 1 ELSE selected.i - 1)
                  ELSE 0)

\* 'q' with no modal open: run_app returns
Quit(input) ==
    /\ app.running
    /\ Branch(app, input) = "quit"
    /\ After([Current EXCEPT !.app.running = FALSE], input)

\* a key while the commit wizard is open; outcome is what repo.commit returns
\* if it is called
WizardKey(input, outcome) ==
    /\ app.running
    /\ Branch(app, input) = "wizard"
    /\ TextRoom(input)
    /\ IF input.key = "Esc"
       THEN After([Current EXCEPT !.app.commit_wizard_active = FALSE,
                                 !.app.log = "Commit wizard cancelled."], input)
       ELSE LET h == HandleInput(app.commit_wizard_state, input)
                w == [Current EXCEPT !.app.commit_wizard_state = h.state]
            IN  IF /\ h.handled
                   /\ input.key = "Enter"
                   /\ h.state.step = "Confirmation"
                THEN After(PerformCommit(w, outcome), input)
                ELSE After(w, input)

\* a key while the history modal is open; outcome is what fs::write returns
HistoryKey(input, outcome) ==
    /\ app.running
    /\ Branch(app, input) \in {"history", "blocked"}
    /\ After(CASE Branch(app, input) = "blocked" -> Current
               [] input.key = "Esc" -> [Current EXCEPT !.app.show_history_modal = FALSE]
               [] input.key = "Enter" -> RestoreSnapshot(Current, db, outcome)
               [] input.key = "Down" ->
                    [Current EXCEPT !.app.history_state =
                                       ListDown(@, Len(app.history_items))]
               [] input.key = "Up" ->
                    [Current EXCEPT !.app.history_state =
                                       ListUp(@, Len(app.history_items))],
             input)

\* a key while the diff modal is open; outcome is what repo.apply_patch
\* returns.  The model has at most one hunk, which Up and Down leave selected
DiffKey(input, outcome) ==
    /\ app.running
    /\ Branch(app, input) = "diff"
    /\ After(CASE input.key = "Esc" -> [Current EXCEPT !.app.show_diff_modal = FALSE]
               [] input = CharS -> StageSelectedHunk(Current, outcome)
               [] OTHER -> Current,
             input)

\* a key while the time machine is open; outcome is what fs::write returns
TimeMachineKey(input, outcome) ==
    /\ app.running
    /\ Branch(app, input) = "time_machine"
    /\ After(CASE input.key = "Esc" ->
                    [Current EXCEPT !.app.show_time_machine_modal = FALSE]
               [] input.key = "Enter" -> RestoreTimeMachine(Current, db, outcome)
               [] input.key = "Down" ->
                    [Current EXCEPT !.app.time_machine_state =
                                       ListDown(@, Len(app.time_machine_events))]
               [] input.key = "Up" ->
                    [Current EXCEPT !.app.time_machine_state =
                                       ListUp(@, Len(app.time_machine_events))]
               [] OTHER -> Current,
             input)

\* a key in normal mode; outcome is what repo.add or repo.unstage returns.  The
\* model stops opening the wizard after MaxCommits commits
NormalKey(input, outcome) ==
    /\ app.running
    /\ Branch(app, input) = "normal"
    /\ input = CharC => commits.count < MaxCommits
    /\ After(CASE input.key = "Down" -> [Current EXCEPT !.app = AppNext(@, disk)]
               [] input.key = "Up" -> [Current EXCEPT !.app = AppPrevious(@, disk)]
               [] input = CharZ -> [Current EXCEPT !.app.zen_mode = ~@]
               [] input = CharC -> [Current EXCEPT !.app = OpenCommitModal(@)]
               [] input = CharH -> LoadHistory(Current, db)
               [] input = CharD -> LoadDiff(Current)
               [] input = CharT -> OpenTimeMachine(Current, db)
               [] input = CharSpace -> StageOrUnstage(Current, outcome)
               [] OTHER -> Current,
             input)

Outcomes == {"Ok", "Err"}

\* the commit wizard alone: the keys of Inputs
NextWizard ==
    \/ \E input \in Inputs : Quit(input)
    \/ \E input \in Inputs, outcome \in Outcomes : WizardKey(input, outcome)
    \/ \E input \in Inputs, outcome \in Outcomes : NormalKey(input, outcome)

SpecWizard == InitUi /\ [][NextWizard]_vars

\* the keys that some arm of run_app matches, and '?', which the help text
\* names
DashInputs ==
    {KeyEnter, KeyEsc, KeyUp, KeyDown, CharC, CharQ, CharH, CharD, CharT,
     CharZ, CharS, CharSpace, CharHelp}

\* the whole dashboard: every key of DashInputs, while the watcher thread
\* saves snapshots of the working files
NextDashboard ==
    \/ handled < MaxKeys /\ \E input \in DashInputs : Quit(input)
    \/ handled < MaxKeys /\ \E input \in DashInputs, outcome \in Outcomes :
          WizardKey(input, outcome)
    \/ handled < MaxKeys /\ \E input \in DashInputs, outcome \in Outcomes :
          HistoryKey(input, outcome)
    \/ handled < MaxKeys /\ \E input \in DashInputs, outcome \in Outcomes :
          DiffKey(input, outcome)
    \/ handled < MaxKeys /\ \E input \in DashInputs, outcome \in Outcomes :
          TimeMachineKey(input, outcome)
    \/ handled < MaxKeys /\ \E input \in DashInputs, outcome \in Outcomes :
          NormalKey(input, outcome)

\* the store that the dashboard starts with: the watcher of an earlier
\* session saved "a" twice and "b" once
StartSnapshots ==
    <<[file_path |-> PathA, timestamp |-> MinTs, content |-> <<7>>],
      [file_path |-> PathB, timestamp |-> MinTs + 1, content |-> <<7>>],
      [file_path |-> PathA, timestamp |-> MaxTs, content |-> <<>>]>>

RECURSIVE StoreAfter(_)
StoreAfter(snapshots) ==
    IF snapshots = <<>> THEN EmptyDb
    ELSE LET s == snapshots[Len(snapshots)]
         IN  ApplyBatch(StoreAfter(SubSeq(snapshots, 1, Len(snapshots) - 1)),
                        <<[k |-> DataKey(s.file_path, s.timestamp),
                           v |-> Encode(s.content)],
                          [k |-> TimeKey(s.timestamp, s.file_path), v |-> <<>>]>>)

\* App::new in a repository whose working file "a" holds a secret
InitDashboard ==
    /\ db = StoreAfter(StartSnapshots)
    /\ last = NoCall
    /\ saved = EmptyDb
    /\ rd = NoCall
    /\ seen = [data |-> {}, idx |-> {}]
    /\ InitWatcher
    /\ git = [index |-> {}, dirty |-> UiPaths]
    /\ disk = [p \in UiPaths |-> IF p = PathA THEN <<7>> ELSE <<>>]
    /\ app = AppNew(TRUE, FeatPrefix, git)
    /\ commits = NoCommits
    /\ pressed = NoInput
    /\ handled = 0

SpecDashboard == InitDashboard /\ [][NextDashboard]_vars

\* the keys that move the selection, stage and commit
SelectInputs == {KeyEnter, KeyEsc, KeyUp, KeyDown, CharC, CharSpace}

\* the dashboard with the keys of SelectInputs alone, for sessions of any
\* length
NextSelect ==
    \/ \E input \in SelectInputs, outcome \in Outcomes : WizardKey(input, outcome)
    \/ \E input \in SelectInputs, outcome \in Outcomes : NormalKey(input, outcome)

SpecSelect == InitDashboard /\ [][NextSelect]_vars

----------------------------------------------------------------------------
(* The change watcher (watch): the notify backend sends events and errors  *)
(* into the channel, the loop takes them one at a time.                    *)

\* ".git", "target", and the paths of the events: "a", "git", ".git/a",
\* "a/target"
DotGit == <<46, 103, 105, 116>>
Target == <<116, 97, 114, 103, 101, 116>>
PathGit == <<103, 105, 116>>
PathDotGitA == DotGit \o <<47, 97>>
PathATarget == <<97, 47>> \o Target

\* str::contains
Contains(text, pattern) ==
    \E i \in 1..(Len(text) - Len(pattern) + 1) :
       SubSeq(text, i, i + Len(pattern) - 1) = pattern

\* the kinds of notify::EventKind that the model sends: Create and Modify,
\* and Remove for all the others
WatchKinds == {"Create", "Modify", "Remove"}

\* event.paths: none, one path, or two paths as a rename has
WatchPathLists ==
    {<<>>, <<PathA>>, <<PathGit>>, <<PathDotGitA>>, <<PathATarget>>,
     <<PathDotGitA, PathA>>}

\* what the channel carries: Ok(event) or Err(e)
WatchError == [ok |-> FALSE, kind |-> "Error", paths |-> <<>>]
WatchEvents ==
    {[ok |-> TRUE, kind |-> kind, paths |-> paths] :
        kind \in WatchKinds, paths \in WatchPathLists}
WatchResults == WatchEvents \cup {WatchError}

\* what fs::read returns: the content of the file, or an error
WatchReads == {[ok |-> TRUE, content |-> <<7>>], NoRead}

\* what save_snapshot returns: Ok(()) with the clock at timestamp, or Err
SaveFailed == [ok |-> FALSE, timestamp |-> 0]
SaveOutcomes == {[ok |-> TRUE, timestamp |-> t] : t \in Timestamps} \cup {SaveFailed}

\* the calls of a pass that does not look at the kind of the event
SnapshotCallsAnyKind(res, store, read) ==
    IF ~res.ok THEN <<>>
    ELSE IF res.paths = <<>> THEN <<>>
    ELSE LET path == res.paths[1]
         IN  IF Contains(path, DotGit) \/ Contains(path, Target) THEN <<>>
             ELSE IF store /\ read.ok
             THEN <<[file_path |-> path, content |-> read.content]>>
             ELSE <<>>

\* the calls of save_snapshot that one pass of the loop makes for res
SnapshotCalls(res, store, read) ==
    IF ~res.ok THEN <<>>
    ELSE IF res.paths = <<>> THEN <<>>
    ELSE LET path == res.paths[1]
         IN  IF Contains(path, DotGit) \/ Contains(path, Target) THEN <<>>
             ELSE IF res.kind \in {"Modify", "Create"}
             THEN IF store /\ read.ok
                  THEN <<[file_path |-> path, content |-> read.content]>>
                  ELSE <<>>
             ELSE <<>>

\* the pass of the loop reads the file
ReadsFile(res, store) ==
    SnapshotCalls(res, store, [ok |-> TRUE, content |-> <<>>]) # <<>>

\* a pass of the loop met a failure: a watch error, a file that could not be
\* read, or a save_snapshot that returned Err
PassFailed(w, res, read, outcome) ==
    \/ ~res.ok
    \/ ReadsFile(res, w.store) /\ ~read.ok
    \/ SnapshotCalls(res, w.store, read) # <<>> /\ ~outcome.ok

\* a loop that ends at the first failure
WatcherAfterStop(w, res, read, outcome) ==
    [w EXCEPT !.passes = @ + 1,
              !.event = res,
              !.read = IF ReadsFile(res, w.store) THEN read ELSE NoRead,
              !.calls = SnapshotCalls(res, w.store, read),
              !.failed = @ \/ PassFailed(w, res, read, outcome),
              !.running = ~PassFailed(w, res, read, outcome)]

\* the watcher after the pass of the loop for res; outcome is what
\* save_snapshot returned if it was called: a failure is printed, the loop
\* goes on
WatcherAfter(w, res, read, outcome) ==
    [w EXCEPT !.passes = @ + 1,
              !.event = res,
              !.read = IF ReadsFile(res, w.store) THEN read ELSE NoRead,
              !.calls = SnapshotCalls(res, w.store, read),
              !.failed = @ \/ PassFailed(w, res, read, outcome)]

\* the notify backend sends an event or an error
Notify(res) ==
    /\ Len(chan) + watcher.passes < MaxEvents
    /\ chan' = Append(chan, res)
    /\ UNCHANGED <<watcher, storevars, uivars>>

\* one pass of `for res in rx`
WatchLoop(read, outcome) ==
    /\ watcher.running
    /\ chan # <<>>
    /\ LET res == Head(chan)
           calls == SnapshotCalls(res, watcher.store, read)
       IN  /\ IF calls = <<>> THEN UNCHANGED <<db, last, saved>>
              ELSE IF outcome.ok
              THEN StoreSave(calls[1].file_path, calls[1].content, outcome.timestamp)
              ELSE /\ last' = [op |-> "save_snapshot", ok |-> FALSE,
                               file_path |-> calls[1].file_path,
                               content |-> calls[1].content, timestamp |-> 0]
                   /\ UNCHANGED <<db, saved>>
           /\ watcher' = WatcherAfter(watcher, res, read, outcome)
    /\ chan' = Tail(chan)
    /\ UNCHANGED <<rd, seen, uivars>>

WatchStep == \E read \in WatchReads, outcome \in SaveOutcomes : WatchLoop(read, outcome)

\* watch before its loop, with the store opened or not
InitWatch ==
    /\ InitStore
    /\ chan = <<>>
    /\ watcher \in {WatcherNew(TRUE), WatcherNew(FALSE)}
    /\ git = [index |-> {}, dirty |-> UiPaths]
    /\ disk = [p \in UiPaths |-> <<>>]
    /\ app = AppNew(TRUE, FeatPrefix, git)
    /\ commits = NoCommits
    /\ pressed = NoInput
    /\ handled = 0

NextWatch ==
    \/ \E res \in WatchResults : Notify(res)
    \/ WatchStep

\* the watcher thread is scheduled: an event in the channel is taken
SpecWatch == InitWatch /\ [][NextWatch]_vars /\ WF_vars(WatchStep)

----------------------------------------------------------------------------
(* Properties of the store.                                                *)

SavedOk == last.op = "save_snapshot" /\ last.ok

\* the index keys of the tree
IndexKeys(store) == {k \in DOMAIN store : StartsWith(k, IdxPrefix)}

\* the timestamps at which a save of file_path succeeded
SavedTimestamps(file_path) == {t \in Timestamps : <<file_path, t>> \in DOMAIN saved}

\* C1: right after save_snapshot(p, c) succeeded with timestamp t,
\* get_snapshot(p, t) returns Some(c), for every payload c
C1_RoundTrip ==
    SavedOk =>
        GetSnapshot(db, last.file_path, last.timestamp)
            = [ok |-> TRUE, some |-> TRUE, val |-> last.content]

\* the empty payload was saved over a store that already holds snapshots
C1_Witness ==
    /\ SavedOk
    /\ last.content = <<>>
    /\ Cardinality(DOMAIN saved) >= 2
    /\ GetSnapshot(db, last.file_path, last.timestamp).some

\* C2: a primary record of (p, t) exists iff the index marker of (t, p)
\* exists, and the tree holds nothing but such pairs
C2_KeyPairing ==
    /\ \A p \in Paths, t \in Timestamps :
          DataKey(p, t) \in DOMAIN db <=> TimeKey(t, p) \in DOMAIN db
    /\ \A k \in DOMAIN db :
          \E p \in Paths, t \in Timestamps : k \in {DataKey(p, t), TimeKey(t, p)}

\* a failed save after successful ones
C2_Witness ==
    /\ last.op = "save_snapshot" /\ ~last.ok
    /\ Cardinality(DOMAIN db) >= 4
    /\ Cardinality(IndexKeys(db)) >= 2

\* C3: right after save_snapshot(p, c) succeeded with timestamp t,
\* get_history(p) has an entry with timestamp t and get_global_timeline(N)
\* has (t, p) for every N that is at least the number of index entries
C3_PostSaveVisible ==
    SavedOk =>
        /\ \E e \in Range(GetHistory(db, last.file_path).val) :
              e.timestamp = last.timestamp
        /\ \A N \in Limits :
              N >= Cardinality(IndexKeys(db)) =>
                 <<last.timestamp, last.file_path>>
                     \in Range(GetGlobalTimeline(db, N).val)

\* the saved path contains ':' and the store is as full as the model allows
C3_Witness ==
    /\ SavedOk
    /\ last.file_path = PathAB
    /\ Cardinality(DOMAIN saved) = MaxSaves
    /\ MaxLimit >= Cardinality(IndexKeys(db))

\* C5: a snapshot that get_snapshot returns is returned unchanged after every
\* further step
C5_SnapshotImmutable ==
    [][\A p \in Paths, t \in Timestamps :
          GetSnapshot(db, p, t).some =>
             GetSnapshot(db', p, t) = GetSnapshot(db, p, t)]_vars

\* C6: a successful save adds two keys, one entry to the history of its file
\* and one pair to the unbounded timeline
C6_SaveAddsTwo ==
    [][(last' # last /\ last'.op = "save_snapshot" /\ last'.ok) =>
          /\ Cardinality(DOMAIN db') = Cardinality(DOMAIN db) + 2
          /\ Len(GetHistory(db', last'.file_path).val)
                = Len(GetHistory(db, last'.file_path).val) + 1
          /\ Len(GetGlobalTimeline(db', Cardinality(DOMAIN db')).val)
                = Len(GetGlobalTimeline(db, Cardinality(DOMAIN db)).val) + 1]_vars

\* C7: get_history returns its entries newest first: an entry with a larger
\* timestamp precedes every entry with a smaller one
C7_HistoryDescending ==
    last.op = "get_history" =>
        \A i, j \in DOMAIN last.result.val :
            last.result.val[i].timestamp > last.result.val[j].timestamp => i < j

\* a history whose timestamps differ in decimal width
C7_Witness ==
    /\ last.op = "get_history"
    /\ Len(last.result.val) >= 2
    /\ \E i, j \in DOMAIN last.result.val :
          Len(FormatI64(last.result.val[i].timestamp))
             > Len(FormatI64(last.result.val[j].timestamp))

\* C8: the timestamps of get_history(p) are exactly those of the successful
\* saves of p
C8_HistoryExact ==
    last.op = "get_history" =>
        {e.timestamp : e \in Range(last.result.val)}
            = SavedTimestamps(last.file_path)

\* the (timestamp, file_path) pairs of the index
IndexPairs == {<<pt[2], pt[1]>> : pt \in DOMAIN saved}

\* C9: get_global_timeline(k) returns min(k, number of index entries) pairs of
\* the index, newest first, and no pair left out is newer than a returned one
C9_TimelineTopK ==
    last.op = "get_global_timeline" =>
        LET val == last.result.val
        IN  /\ Len(val) = Min(last.limit, Cardinality(IndexKeys(db)))
            /\ Range(val) \subseteq IndexPairs
            /\ Cardinality(Range(val)) = Len(val)
            /\ \A i, j \in DOMAIN val : i < j => val[i][1] >= val[j][1]
            /\ \A out \in IndexPairs \ Range(val) :
                  \A e \in Range(val) : out[1] <= e[1]

\* a limit that cuts a timeline of several files and digit widths
C9_Witness ==
    /\ last.op = "get_global_timeline"
    /\ last.limit >= 1
    /\ last.limit < Cardinality(IndexKeys(db))
    /\ Cardinality({e[2] : e \in IndexPairs}) >= 2
    /\ \E e, f \in IndexPairs : Len(FormatI64(e[1])) > Len(FormatI64(f[1]))

\* C10: get_checkpoint_state(T) has, for every file with a snapshot at or
\* before T, the content of its newest snapshot at or before T
C10_CheckpointFloor ==
    last.op = "get_checkpoint_state" =>
        \A p \in Paths :
            LET before == {t \in SavedTimestamps(p) : t <= last.target_timestamp}
            IN  before # {} =>
                   <<p, saved[<<p, MaxOf(before)>>]>> \in Range(last.result.val)

\* C4: whatever the interleaving with the writer, a snapshot the UI thread
\* has seen through get_history or get_snapshot is in every later timeline that
\* is not cut short, and a pair it has seen in a timeline is in every later
\* get_history of that file and is found by every later get_snapshot
C4_ReaderConsistent ==
    /\ (last.op = "get_global_timeline"
           /\ last.limit >= Cardinality(IndexKeys(db))) =>
          \A pt \in seen.data : <<pt[2], pt[1]>> \in Range(last.result.val)
    /\ last.op = "get_history" =>
          \A tp \in seen.idx :
              tp[2] = last.file_path =>
                 \E e \in Range(last.result.val) : e.timestamp = tp[1]
    /\ (last.op = "get_snapshot"
           /\ <<last.timestamp, last.file_path>> \in seen.idx) =>
          last.result.ok /\ last.result.some

\* C11: get_checkpoint_state(T) has no entry for a file whose snapshots are all
\* after T, and is empty when T is before every snapshot of the store
C11_CheckpointExcludes ==
    last.op = "get_checkpoint_state" =>
        /\ \A e \in Range(last.result.val) :
              \E t \in SavedTimestamps(e[1]) : t <= last.target_timestamp
        /\ (\A pt \in DOMAIN saved : pt[2] > last.target_timestamp) =>
              last.result.val = <<>>

\* one file is restored while another, saved only after T, is left out
C11_Witness ==
    /\ last.op = "get_checkpoint_state"
    /\ last.result.val # <<>>
    /\ \E p \in Paths :
          /\ SavedTimestamps(p) # {}
          /\ \A t \in SavedTimestamps(p) : t > last.target_timestamp
          /\ \A e \in Range(last.result.val) : e[1] # p

\* C12: when the snapshot selected for a file (its newest one at or before T)
\* does not decode, get_checkpoint_state(T) is still Ok, leaves that file out
\* and has the right content for every other file with a snapshot at or
\* before T
C12_CheckpointTolerant ==
    LET Before(p) == {t \in SavedTimestamps(p) : t <= last.target_timestamp}
    IN  (/\ last.op = "get_checkpoint_state"
         /\ \E p \in Paths : Before(p) # {} /\ Corrupted(p, MaxOf(Before(p)))) =>
            /\ last.result.ok
            /\ \A p \in Paths :
                  Before(p) # {} =>
                     IF Corrupted(p, MaxOf(Before(p)))
                     THEN \A e \in Range(last.result.val) : e[1] # p
                     ELSE <<p, saved[<<p, MaxOf(Before(p))>>]>>
                              \in Range(last.result.val)

\* C13: with a corrupted blob in the tree, get_snapshot of that very snapshot
\* fails, while get_history of any file and get_global_timeline are Ok and
\* list every snapshot that is not corrupted
C13_CorruptionTolerant ==
    /\ (last.op = "get_snapshot" /\ Corrupted(last.file_path, last.timestamp)) =>
          ~last.result.ok
    /\ last.op = "get_history" =>
          /\ last.result.ok
          /\ \A t \in SavedTimestamps(last.file_path) :
                ~Corrupted(last.file_path, t) =>
                   \E e \in Range(last.result.val) : e.timestamp = t
    /\ last.op = "get_global_timeline" =>
          /\ last.result.ok
          /\ last.limit >= Cardinality(IndexKeys(db)) =>
                \A pt \in DOMAIN saved :
                    ~Corrupted(pt[1], pt[2]) =>
                       <<pt[2], pt[1]>> \in Range(last.result.val)

\* the history of a file with one corrupted and one intact snapshot
C13_Witness ==
    /\ last.op = "get_history"
    /\ Len(last.result.val) >= 2
    /\ \E t \in SavedTimestamps(last.file_path) : Corrupted(last.file_path, t)
    /\ \E t \in SavedTimestamps(last.file_path) : ~Corrupted(last.file_path, t)

\* C15: a save_snapshot that returns an error leaves the tree as it was, and
\* with it the results of every read call
C15_FailedSaveNoTrace ==
    [][(last' # last /\ last'.op = "save_snapshot" /\ ~last'.ok) =>
          /\ db' = db
          /\ \A p \in Paths :
                /\ GetHistory(db', p) = GetHistory(db, p)
                /\ \A t \in Timestamps : GetSnapshot(db', p, t) = GetSnapshot(db, p, t)
          /\ \A k \in Limits : GetGlobalTimeline(db', k) = GetGlobalTimeline(db, k)
          /\ \A T \in Targets : CheckpointPairs(db', T) = CheckpointPairs(db, T)]_vars

\* a save failed on a store that holds snapshots
C15_Witness ==
    /\ last.op = "save_snapshot" /\ ~last.ok
    /\ Cardinality(DOMAIN saved) >= 2
    /\ \E T \in Targets : CheckpointPairs(db, T) # {}

\* C16: get_snapshot(p, t) returns Ok(None) whenever no save of p succeeded at
\* exactly t
C16_AbsentIsNone ==
    (last.op = "get_snapshot"
        /\ <<last.file_path, last.timestamp>> \notin DOMAIN saved) =>
       last.result = [ok |-> TRUE, some |-> FALSE, val |-> <<>>]

\* the file has snapshots at other timestamps and another file has one at t
C16_Witness ==
    /\ last.op = "get_snapshot"
    /\ <<last.file_path, last.timestamp>> \notin DOMAIN saved
    /\ SavedTimestamps(last.file_path) # {}
    /\ \E p \in Paths : p # last.file_path /\ last.timestamp \in SavedTimestamps(p)
    /\ ~last.result.some

\* the first entries of get_history(p) and of get_global_timeline(1) carry the
\* timestamp of the save that has just succeeded
LatestIsLast ==
    /\ GetHistory(db, last.file_path).val[1].timestamp = last.timestamp
    /\ GetGlobalTimeline(db, 1).val[1][1] = last.timestamp

\* C17 as claimed: after every successful save, whatever the clock reading
C17_LatestAdvancesAlways == SavedOk => LatestIsLast

\* C17: after a successful save whose clock reading is not below any timestamp
\* already in the store
C17_LatestAdvances ==
    (SavedOk /\ \A pt \in DOMAIN saved : pt[2] <= last.timestamp) => LatestIsLast

\* a save at a later reading than the two snapshots before it, one of them of
\* the same file, with a change of digit width
C17_Witness ==
    /\ SavedOk
    /\ \A pt \in DOMAIN saved : pt[2] <= last.timestamp
    /\ \E t \in SavedTimestamps(last.file_path) :
          Len(FormatI64(t)) < Len(FormatI64(last.timestamp))
    /\ Cardinality(DOMAIN saved) >= 3

\* what the reads of file q return on tree d
FileView(d, q) ==
    [history |-> GetHistory(d, q),
     snapshots |-> [t \in Timestamps |-> GetSnapshot(d, q, t)]]

\* C18: a successful save of p leaves get_history(q) and get_snapshot(q, t)
\* unchanged for every other path q and every t
C18_FileIndependence ==
    [][(last'.op = "save_snapshot" /\ last'.ok)
         => \A q \in Paths \ {last'.file_path} : FileView(db', q) = FileView(db, q)]_vars

C20_CommitOnlyAtConfirmation ==
    [][commits' # commits => app.commit_wizard_state.step = "Confirmation"]_vars

\* C23: of two snapshots in the store the older one has the smaller time-index
\* key, and of two snapshots of one file the older one has the smaller primary
\* key, under byte-wise comparison
C23_KeysChronological ==
    \A x, y \in DOMAIN saved :
        x[2] < y[2] =>
            /\ LexLess(TimeKey(x[2], x[1]), TimeKey(y[2], y[1]))
            /\ x[1] = y[1] => LexLess(DataKey(x[1], x[2]), DataKey(y[1], y[2]))

\* C24: get_history(p) returns Ok whatever the blobs hold, every entry has the
\* length of a stored blob under the prefix with that timestamp, and the entry
\* of every snapshot of p has the length of the blob stored for it
C24_SizeIsBlobLength ==
    last.op = "get_history" =>
        LET p == last.file_path
            val == last.result.val
        IN  /\ last.result.ok
            /\ \A i \in DOMAIN val :
                  \E k \in HistoryKeys(db, p) :
                      /\ ParseI64(RSplitFirst(k)) = [ok |-> TRUE, val |-> val[i].timestamp]
                      /\ val[i].size = Len(db[k])
            /\ \A t \in SavedTimestamps(p) :
                  \E i \in DOMAIN val :
                      val[i] = [timestamp |-> t, size |-> Len(db[DataKey(p, t)])]

\* a history with the entry of a blob that no longer decodes, whose size is
\* not the length of the content that was saved
C24_Witness ==
    /\ last.op = "get_history"
    /\ \E t \in SavedTimestamps(last.file_path) :
          /\ Corrupted(last.file_path, t)
          /\ ~Decode(db[DataKey(last.file_path, t)]).ok
          /\ \E i \in DOMAIN last.result.val :
                /\ last.result.val[i].timestamp = t
                /\ last.result.val[i].size # Len(saved[<<last.file_path, t>>])

\* C30: check_patterns(text, set) is None exactly when no pattern of the set
\* occurs in the text, and otherwise Some of the smallest index whose pattern
\* occurs in it
C30_FirstMatch ==
    last.op = "check_patterns" =>
        LET hits == {i \in 1..Len(last.set) :
                       \E from \in 1..Len(last.text), to \in 1..Len(last.text) :
                           SubSeq(last.text, from, to) = last.set[i]}
        IN  /\ ~last.result.some <=> hits = {}
            /\ last.result.some =>
                  /\ last.result.val + 1 \in hits
                  /\ \A i \in hits : last.result.val + 1 <= i

\* a set of two different patterns that both occur in the text: the result is
\* the index of the first one
C30_Witness ==
    /\ last.op = "check_patterns"
    /\ Len(last.set) = 2
    /\ last.result.some
    /\ IsMatch(last.set[2], last.text)
    /\ last.set[1] # last.set[2]
    /\ last.result.val = 0

\* the five texts of the wizard are empty
AllEmpty(state) ==
    /\ state.type_input = <<>>
    /\ state.scope_input = <<>>
    /\ state.desc_input = <<>>
    /\ state.body_input = <<>>
    /\ state.footer_input = <<>>

\* C29: when Enter runs perform_commit on a wizard whose five texts are empty,
\* no commit is made, the abort is logged and the wizard stays open
C29_EmptyRejected ==
    [][(/\ pressed' = KeyEnter
        /\ app.running /\ app.repo /\ app.commit_wizard_active
        /\ NextStep(app.commit_wizard_state.step) = "Confirmation"
        /\ AllEmpty(app.commit_wizard_state))
         => /\ commits' = commits
            /\ app'.log = "Commit abortado"
            /\ app'.commit_wizard_active]_vars

\* C25: opening the wizard puts it at step Type; while it is open Enter moves
\* it one step along Type, Scope, Description, Body, Footer, Confirmation and
\* leaves it at Confirmation unless the commit resets it; any other key but
\* Esc leaves the step alone; Esc closes the wizard and makes no commit
C25_StepProtocol ==
    [][LET state == app.commit_wizard_state
           after == app'.commit_wizard_state
       IN  /\ (app.running /\ ~app.commit_wizard_active /\ app'.commit_wizard_active)
                 => after.step = "Type"
           /\ (app.running /\ app.commit_wizard_active) =>
                 /\ (pressed' = KeyEnter /\ state.step # "Confirmation")
                       => /\ after.step = NextStep(state.step)
                          /\ after.step # state.step
                 /\ (pressed' = KeyEnter /\ state.step = "Confirmation")
                       => \/ after.step = "Confirmation"
                          \/ after = WizardDefault /\ ~app'.commit_wizard_active
                 /\ pressed' \notin {KeyEnter, KeyEsc} => after.step = state.step
                 /\ pressed' = KeyEsc
                       => /\ ~app'.commit_wizard_active
                          /\ commits' = commits
                          /\ after = state]_vars

\* C21: pressing '?' in the dashboard with no modal open toggles the help
\* modal
C21_HelpToggles ==
    [][(/\ pressed' = CharHelp
        /\ app.running
        /\ Branch(app, CharHelp) = "normal")
         => app'.show_help_modal = ~app.show_help_modal]_vars

\* C22: a Space key adds a file to the index only if Sentinel::scan_file finds
\* no issue in the content that the file has at that moment
C22_StagingGuard ==
    [][pressed' = CharSpace
         => \A path \in git'.index \ git.index : ScanFile(disk[path]) = <<>>]_vars

\* one of the four modals is open
ModalOpen(a) ==
    \/ a.commit_wizard_active
    \/ a.show_history_modal
    \/ a.show_diff_modal
    \/ a.show_time_machine_modal

\* C26: while the commit wizard, the history modal, the diff modal or the time
\* machine is open no key quits, moves the file selection, toggles zen mode,
\* opens another modal or restarts the wizard, and the index changes only by
\* the commit of the wizard or by 's' in the diff modal; 'q' quits exactly
\* when no modal is open; Esc in a modal closes that modal and does nothing
\* else
C26_ModalIsolation ==
    [][app.running =>
         /\ ModalOpen(app) =>
               /\ app'.running
               /\ app'.selected_index = app.selected_index
               /\ app'.zen_mode = app.zen_mode
               /\ app'.commit_wizard_active => app.commit_wizard_active
               /\ app'.show_history_modal => app.show_history_modal
               /\ app'.show_diff_modal => app.show_diff_modal
               /\ app'.show_time_machine_modal => app.show_time_machine_modal
               /\ (app.commit_wizard_active /\ pressed' = CharC)
                     => app'.commit_wizard_state =
                           HandleInput(app.commit_wizard_state, CharC).state
               /\ git'.index # git.index
                     => \/ app.commit_wizard_active /\ commits'.count = commits.count + 1
                        \/ app.show_diff_modal /\ pressed' = CharS
               /\ pressed' = KeyEsc
                     => /\ [app' EXCEPT !.log = app.log] =
                             [app EXCEPT !.commit_wizard_active = FALSE,
                                         !.show_history_modal = FALSE,
                                         !.show_diff_modal = FALSE,
                                         !.show_time_machine_modal = FALSE]
                        /\ <<commits, git, disk, storevars>>' =
                             <<commits, git, disk, storevars>>
         /\ ~app'.running => pressed' = CharQ /\ ~ModalOpen(app)
         /\ (pressed' = CharQ /\ ~ModalOpen(app)) => ~app'.running]_vars

\* 'q' was pressed in the diff modal and the dashboard still runs with the
\* modal open
C26_Witness ==
    /\ app.running
    /\ app.show_diff_modal
    /\ pressed = CharQ

\* an event of kind Modify or Create whose first path contains neither ".git"
\* nor "target"
Qualifying(res) ==
    /\ res.ok
    /\ res.kind \in {"Modify", "Create"}
    /\ res.paths # <<>>
    /\ ~Contains(res.paths[1], DotGit)
    /\ ~Contains(res.paths[1], Target)

\* C27: a pass of the watcher loop calls save_snapshot at most once, and only
\* for a qualifying event whose file was read, with the first path and the
\* content read; no snapshot exists for a path that contains ".git" or
\* "target", and none is made by an event of another kind
C27_WatcherFilter ==
    /\ Len(watcher.calls) <= 1
    /\ watcher.calls # <<>> =>
          /\ Qualifying(watcher.event)
          /\ watcher.read.ok
          /\ watcher.calls[1] = [file_path |-> watcher.event.paths[1],
                                 content |-> watcher.read.content]
    /\ \A k \in DOMAIN saved :
          /\ ~Contains(k[1], DotGit)
          /\ ~Contains(k[1], Target)
    /\ DOMAIN db = {DataKey(k[1], k[2]) : k \in DOMAIN saved}
                      \cup {TimeKey(k[2], k[1]) : k \in DOMAIN saved}

\* with the store open, passes took a Remove event on "a" after a snapshot of
\* "a" was saved, and an event on ".git/a": neither called save_snapshot
C27_Witness ==
    /\ watcher.store
    /\ watcher.calls = <<>>
    /\ \/ watcher.event.kind = "Remove" /\ watcher.event.paths = <<PathA>>
       \/ watcher.event.kind = "Modify" /\ watcher.event.paths = <<PathDotGitA, PathA>>
    /\ saved # EmptyDb

\* C28: the watcher loop never ends; every event or error sent into the
\* channel is taken; and whenever the store is open and the file of a
\* qualifying event was read, save_snapshot is called for it, whatever failed
\* in earlier passes
C28_WatcherResilient ==
    /\ [](watcher.running)
    /\ [](Qualifying(watcher.event) /\ watcher.store /\ watcher.read.ok
            => watcher.calls # <<>>)
    /\ \A n \in 1..MaxEvents :
          [](Len(chan) + watcher.passes >= n => <>(watcher.passes >= n))

\* after a pass that met a failure, a later pass saved a snapshot
C28_Witness ==
    /\ watcher.failed
    /\ watcher.running
    /\ watcher.calls # <<>>
    /\ SavedOk
    /\ last.file_path = watcher.calls[1].file_path

\* the read calls of the store
ReadOps == {"get_snapshot", "get_history", "get_global_timeline", "get_checkpoint_state"}

\* C31: a call of get_snapshot, get_history, get_global_timeline or
\* get_checkpoint_state leaves every key and value of the tree as it was,
\* whatever it returns
C31_ReadsArePure ==
    [][last'.op \in ReadOps => db' = db]_vars

\* a read call failed on a record it could not decode, in a tree that holds
\* more records
C31_Witness ==
    /\ last.op \in ReadOps
    /\ ~last.result.ok
    /\ Cardinality(DOMAIN db) >= 4

\* C35: two different (file_path, timestamp) pairs have different primary keys
\* and different time-index keys, and the split of a time-index key into at
\* most three fields gives back its timestamp and its file path, with every
\* ':' of the path
C35_KeysInjective ==
    /\ \A k1, k2 \in DOMAIN saved :
          k1 # k2 =>
             /\ DataKey(k1[1], k1[2]) # DataKey(k2[1], k2[2])
             /\ TimeKey(k1[2], k1[1]) # TimeKey(k2[2], k2[1])
    /\ \A k \in DOMAIN saved :
          /\ TimeKey(k[2], k[1]) \in DOMAIN db
          /\ TimelinePush(<<>>, TimeKey(k[2], k[1])) = << <<k[2], k[1]>> >>

\* two snapshots are saved, one of them under a path with ':' inside
C35_Witness ==
    /\ Cardinality(DOMAIN saved) >= 2
    /\ \E k \in DOMAIN saved : k[1] \in {PathAB, <<97, 58, 57>>}

\* the modals that are open
OpenModals(a) ==
    {m \in {"wizard", "history", "diff", "time_machine"} :
        \/ m = "wizard" /\ a.commit_wizard_active
        \/ m = "history" /\ a.show_history_modal
        \/ m = "diff" /\ a.show_diff_modal
        \/ m = "time_machine" /\ a.show_time_machine_modal}

\* C33: at most one of the commit wizard, the history modal, the diff modal
\* and the time machine is open
C33_OneModal == Cardinality(OpenModals(app)) <= 1

\* a key that opens another modal in normal mode was pressed while the
\* history modal was open
C33_Witness ==
    /\ OpenModals(app) = {"history"}
    /\ pressed \in {CharC, CharD, CharT}

\* C34: whenever the file list is not empty the selection is inside it
C34_SelectionInBounds ==
    app.files # <<>> => app.selected_index < Len(app.files)

\* C32: a call of get_checkpoint_state(T), with every save_snapshot that runs
\* during the call stamped after T, returns the (file, content) pairs that it
\* would have returned on the tree as it was when the call began
C32_CheckpointStable ==
    (last.op = "get_checkpoint_state") => Range(last.result.val) = last.alone

\* the writer saved during the call, and the call restored a file
C32_Witness ==
    /\ last.op = "get_checkpoint_state"
    /\ last.raced
    /\ last.alone # {}

====
